---------------------------- MODULE Spec2Model ----------------------------
(***************************************************************************)
(* Model of the HDF5 merge / extraction pipeline of mpe-h5-explorer-tool:  *)
(* get_session_names, extract_data_from_h5, combine_and_sort_h5_files and  *)
(* get_h5_plot_stuff.                                                      *)
(*                                                                         *)
(* A file is a map from top-level group names to groups.  Group names are  *)
(* sequences of character codes so that str.startswith and the             *)
(* lexicographic list.sort of get_session_names are computed, not assumed. *)
(* Signal names, units and attribute values are byte strings compared by   *)
(* equality only; they are TLA+ strings.  Optional values (Python None)    *)
(* are records with a `has' flag.                                          *)
(***************************************************************************)
EXTENDS Integers, Sequences, FiniteSets, TLC

VARIABLES
    fs,                 \* path -> file: the file system
    fsPre,              \* the file system when the current call started
    pathHigh,           \* file_paths[0]
    pathLow,            \* file_paths[1]
    outPath,            \* output_file_path
    pc,                 \* position inside combine_and_sort_h5_files
    high,               \* result of extract_data_from_h5(file_path_high)
    low,                \* result of extract_data_from_h5(file_path_low)
    rep,                \* signals_to_write, running_time_idx, attributes_to_write, triggers_to_write
    combined_scans,     \* combined_scans
    sorted_scans,       \* sorted_scans
    groups_dtype,       \* groups_dtype
    plotArgs,           \* x_signal_name, y_signal_name of the call of get_h5_plot_stuff
    plot,               \* result of get_h5_plot_stuff on the output file
    run,                \* 1 for the first call, 2 for the call with the arguments swapped
    prev                \* what the first call left behind, kept for the second

vars == <<fs, fsPre, pathHigh, pathLow, outPath, pc, high, low, rep,
          combined_scans, sorted_scans, groups_dtype, plotArgs, plot, run, prev>>

---------------------------------------------------------------------------
(* Bounds of the model *)

MaxVal == 2
MaxRows == 2
MaxSigs == 3
MaxSessions == 2

---------------------------------------------------------------------------
(* Program constants *)

\* running_time_col_idx = -1, current_x_idx = -1: the not-found sentinel
NotFound == -1

\* "Session", the prefix get_session_names filters on
SessionPrefix == <<83, 101, 115, 115, 105, 111, 110>>

\* 'CombinedDataSession'
CombinedGroupName == <<67, 111, 109, 98, 105, 110, 101, 100, 68, 97, 116, 97>> \o SessionPrefix

\* b'Combined'
CombinedTag == <<67, 111, 109, 98, 105, 110, 101, 100>>

RunningTime == "Running Time"
AxialForce == "Axial Force"

\* np.dtype([('[Id]', '<i8'), ('[ScanStart]', '<i8'), ('[ScanCount]', '<i8'), ('[Tag]', 'S10')])
FallbackDtype == [ints |-> "<i8", tag |-> 10]

DisplayNameValue == "Combined High and Low Frequency Data (Sorted by Running Time)"
NameValue == "combinedCyclicDaqActivity"

---------------------------------------------------------------------------
(* Values *)

NoScans == [has |-> FALSE, ncols |-> 0, rows |-> <<>>]
NoSignals == [has |-> FALSE, tab |-> <<>>]
NoAttrs == [has |-> FALSE, map |-> <<>>]
NoTriggers == [has |-> FALSE, data |-> ""]
NoGroups == [has |-> FALSE, dtype |-> FallbackDtype, rows |-> <<>>]
NoDtype == [has |-> FALSE, dtype |-> FallbackDtype]

Table(n, r) == [has |-> TRUE, ncols |-> n, rows |-> r]
Signals(t) == [has |-> TRUE, tab |-> t]
Triggers(d) == [has |-> TRUE, data |-> d]
GroupsTable(d, r) == [has |-> TRUE, dtype |-> d, rows |-> r]
Sig(n, u) == [Name |-> n, Unit |-> u]

Group(scans, signals, triggers, attrs, groups) ==
    [Scans |-> scans, Signals |-> signals, Triggers |-> triggers,
     attrs |-> attrs, Groups |-> groups]

EmptyGroup == Group(NoScans, NoSignals, NoTriggers, <<>>, NoGroups)

\* os.path.exists(path) is false
AbsentFile == [exists |-> FALSE, groups |-> <<>>]
File(g) == [exists |-> TRUE, groups |-> g]

Range(s) == {s[i] : i \in DOMAIN s}

---------------------------------------------------------------------------
(* get_session_names *)

\* name.startswith("Session")
StartsWithSession(name) ==
    /\ Len(name) >= Len(SessionPrefix)
    /\ SubSeq(name, 1, Len(SessionPrefix)) = SessionPrefix

\* str.__lt__: code-point lexicographic order, a proper prefix sorts first
RECURSIVE LexLess(_, _)
LexLess(a, b) ==
    IF b = <<>> THEN FALSE
    ELSE IF a = <<>> THEN TRUE
    ELSE IF Head(a) # Head(b) THEN Head(a) < Head(b)
    ELSE LexLess(Tail(a), Tail(b))

\* a bug: the names are put in descending order
RECURSIVE SortNamesDescending(_)
SortNamesDescending(S) ==
    IF S = {} THEN <<>>
    ELSE LET m == CHOOSE x \in S : \A y \in S \ {x} : LexLess(y, x)
         IN  <<m>> \o SortNamesDescending(S \ {m})

\* list.sort() of distinct names
RECURSIVE SortNames(_)
SortNames(S) ==
    IF S = {} THEN <<>>
    ELSE LET m == CHOOSE x \in S : \A y \in S \ {x} : LexLess(x, y)
         IN  <<m>> \o SortNames(S \ {m})

get_session_names(groups) ==
    SortNames({name \in DOMAIN groups : StartsWithSession(name)})

---------------------------------------------------------------------------
(* extract_data_from_h5 *)

\* for i, signal_entry in enumerate(signals_data): if Name == target: idx = i; break
RECURSIVE FirstMatchFrom(_, _, _)
FirstMatchFrom(tab, target, i) ==
    IF i > Len(tab) THEN NotFound
    ELSE IF tab[i].Name = target THEN i - 1
    ELSE FirstMatchFrom(tab, target, i + 1)

\* a bug: running_time_col_idx starts at 0, so a table without the name gives 0
FindRunningTimeFromZero(tab, target) ==
    IF FirstMatchFrom(tab, target, 1) = NotFound THEN 0 ELSE FirstMatchFrom(tab, target, 1)

FindRunningTime(tab, target) == FirstMatchFrom(tab, target, 1)

\* np.concatenate(list, axis=0): every array must have the same number of columns
ConcatCompatible(list) ==
    \A i, j \in DOMAIN list : list[i].ncols = list[j].ncols

RECURSIVE ConcatRows(_)
ConcatRows(list) ==
    IF list = <<>> THEN <<>>
    ELSE Head(list).rows \o ConcatRows(Tail(list))

Concatenate(list) == Table(list[1].ncols, ConcatRows(list))

\* a bug: the loop over the sessions ends at the first session without Scans
RECURSIVE ScansListStopAtMissing(_, _)
ScansListStopAtMissing(groups, names) ==
    IF names = <<>> THEN <<>>
    ELSE LET g == groups[Head(names)]
         IN  IF g.Scans.has
             THEN <<g.Scans>> \o ScansListStopAtMissing(groups, Tail(names))
             ELSE <<>>

\* all_scans_list: the Scans of the sessions that have one, in session order
RECURSIVE ScansList(_, _)
ScansList(groups, names) ==
    IF names = <<>> THEN <<>>
    ELSE LET g == groups[Head(names)]
         IN  (IF g.Scans.has THEN <<g.Scans>> ELSE <<>>) \o ScansList(groups, Tail(names))

Extracted(raised, scans, signals, rt, attrs, triggers) ==
    [raised |-> raised, scans |-> scans, signals |-> signals, rt |-> rt,
     attrs |-> attrs, triggers |-> triggers]

\* return None, None, -1, None, None
NothingExtracted == Extracted(FALSE, NoScans, NoSignals, NotFound, NoAttrs, NoTriggers)

extract_data_from_h5(file) ==
    IF ~file.exists THEN NothingExtracted
    ELSE
    LET session_names == get_session_names(file.groups) IN
    IF session_names = <<>> THEN NothingExtracted
    ELSE
    LET first_session_group == file.groups[session_names[1]]
        signals_data == first_session_group.Signals
        running_time_col_idx ==
            IF signals_data.has THEN FindRunningTime(signals_data.tab, RunningTime)
            ELSE NotFound
        file_attributes == [has |-> TRUE, map |-> first_session_group.attrs]
        triggers_data == first_session_group.Triggers
        all_scans_list == ScansList(file.groups, session_names)
    IN  IF all_scans_list = <<>>
        THEN Extracted(FALSE, NoScans, signals_data, running_time_col_idx,
                       file_attributes, triggers_data)
        ELSE IF ~ConcatCompatible(all_scans_list)
        THEN Extracted(TRUE, NoScans, signals_data, running_time_col_idx,
                       file_attributes, triggers_data)
        ELSE Extracted(FALSE, Concatenate(all_scans_list), signals_data,
                       running_time_col_idx, file_attributes, triggers_data)

---------------------------------------------------------------------------
(* combine_and_sort_h5_files: the pure steps *)

\* a bug: the running-time index is not looked at
QualifiesSignalsOnly(signals, rt) == signals.has

\* signals_X is not None and rt_idx_X != -1
Qualifies(signals, rt) == signals.has /\ rt # NotFound

Rep(signals, rt, attrs, triggers) ==
    [signals |-> signals, rt |-> rt, attrs |-> attrs, triggers |-> triggers]

\* signals_to_write = None; running_time_idx = -1; attributes_to_write = None; triggers_to_write = None
NoRep == Rep(NoSignals, NotFound, NoAttrs, NoTriggers)

RepOf(x) == Rep(x.signals, x.rt, x.attrs, x.triggers)

\* a bug: the elif branch is missing, the second file is never the fallback
SelectHighOnly(h, l) ==
    IF Qualifies(h.signals, h.rt) THEN [rep |-> RepOf(h), fatal |-> h.rt = NotFound]
    ELSE [rep |-> NoRep, fatal |-> TRUE]

\* the if / elif / else choosing the representative metadata, then the check of
\* running_time_idx: the record chosen and whether the function goes on
SelectRepresentative(h, l) ==
    IF Qualifies(h.signals, h.rt) THEN [rep |-> RepOf(h), fatal |-> h.rt = NotFound]
    ELSE IF Qualifies(l.signals, l.rt) THEN [rep |-> RepOf(l), fatal |-> l.rt = NotFound]
    ELSE [rep |-> NoRep, fatal |-> TRUE]

\* a bug: elif instead of the second if, the second file's rows are left out
CombinedListElif(h, l) ==
    IF h.scans.has THEN <<h.scans>> ELSE IF l.scans.has THEN <<l.scans>> ELSE <<>>

\* all_scans_list_combined
CombinedList(h, l) ==
    (IF h.scans.has THEN <<h.scans>> ELSE <<>>) \o (IF l.scans.has THEN <<l.scans>> ELSE <<>>)

\* combined_scans[:, idx]
Column(rows, idx) == [i \in DOMAIN rows |-> rows[i][idx + 1]]

SetMin(S) == CHOOSE m \in S : \A x \in S : m <= x

\* every index order that puts the keys of `left' in non-decreasing order
RECURSIVE SortingOrders(_, _)
SortingOrders(keys, left) ==
    IF left = {} THEN {<<>>}
    ELSE LET m == SetMin({keys[i] : i \in left})
         IN  UNION {{<<i>> \o rest : rest \in SortingOrders(keys, left \ {i})} :
                    i \in {j \in left : keys[j] = m}}

\* a bug: the rows are left in the order of the concatenation
ArgsortUnsorted(keys) == {[i \in DOMAIN keys |-> i]}

\* a bug: the order is reversed, largest key first
ArgsortDescending(keys) ==
    {[i \in DOMAIN o |-> o[Len(o) + 1 - i]] : o \in SortingOrders(keys, DOMAIN keys)}

\* keys.argsort(): the default kind is not stable, so equal keys may come out
\* in any order
Argsort(keys) == SortingOrders(keys, DOMAIN keys)

\* combined_scans[sort_indices]
TakeRows(rows, order) == [i \in DOMAIN order |-> rows[order[i]]]

\* the value np.array([...], dtype=groups_dtype) stores for b'Combined' in an S<n> field
StoredTag(dtype) ==
    IF Len(CombinedTag) <= dtype.tag THEN CombinedTag ELSE SubSeq(CombinedTag, 1, dtype.tag)

\* np.array([(1, 0, num_total_scans, b'Combined')], dtype=groups_dtype)
GroupEntry(dtype, num_total_scans) ==
    <<[Id |-> 1, ScanStart |-> 0, ScanCount |-> num_total_scans, Tag |-> StoredTag(dtype)]>>

\* os.path.basename: a path is its sequence of components
Basename(path) == path[Len(path)]

\* main_group.attrs[...] = ...: the representative's attributes, then the five
\* assignments
NewAttrKeys == {"DisplayName", "Name", "SessionIndex", "OriginalFileHigh", "OriginalFileLow"}

\* a bug: the five assignments come first, the representative's values overwrite them
WrittenAttrsRepLast(attrs, file_path_high, file_path_low) ==
    LET base == IF attrs.has THEN attrs.map ELSE <<>>
        new == [k \in NewAttrKeys |->
                   CASE k = "DisplayName" -> DisplayNameValue
                     [] k = "Name" -> NameValue
                     [] k = "SessionIndex" -> "0"
                     [] k = "OriginalFileHigh" -> Basename(file_path_high)
                     [] k = "OriginalFileLow" -> Basename(file_path_low)]
    IN  [k \in (DOMAIN base) \cup NewAttrKeys |-> IF k \in DOMAIN base THEN base[k] ELSE new[k]]

WrittenAttrs(attrs, file_path_high, file_path_low) ==
    LET base == IF attrs.has THEN attrs.map ELSE <<>>
        new == [k \in NewAttrKeys |->
                   CASE k = "DisplayName" -> DisplayNameValue
                     [] k = "Name" -> NameValue
                     [] k = "SessionIndex" -> "0"
                     [] k = "OriginalFileHigh" -> Basename(file_path_high)
                     [] k = "OriginalFileLow" -> Basename(file_path_low)]
    IN  [k \in (DOMAIN base) \cup NewAttrKeys |-> IF k \in NewAttrKeys THEN new[k] ELSE base[k]]

\* the dtype of '<first session>/Groups' of file_path_high, if it can be read
ReadDtype(file) ==
    IF ~file.exists THEN NoDtype
    ELSE LET temp_session_names == get_session_names(file.groups)
         IN  IF temp_session_names # <<>> /\ file.groups[temp_session_names[1]].Groups.has
             THEN [has |-> TRUE, dtype |-> file.groups[temp_session_names[1]].Groups.dtype]
             ELSE NoDtype

---------------------------------------------------------------------------
(* get_h5_plot_stuff *)

\* the loop over signals_data_arr has no break: a later match overwrites an
\* earlier one
RECURSIVE MatchLoop(_, _, _, _)
MatchLoop(tab, target, i, current) ==
    IF i > Len(tab) THEN current
    ELSE MatchLoop(tab, target, i + 1, IF tab[i].Name = target THEN i - 1 ELSE current)

PlotIndex(tab, target) == MatchLoop(tab, target, 1, NotFound)

Plot(ok, xi, yi, xd, yd, xl, yl, title, xu, yu) ==
    [ok |-> ok, x_idx |-> xi, y_idx |-> yi, x_data |-> xd, y_data |-> yd,
     x_label |-> xl, y_label |-> yl, title |-> title, x_unit |-> xu, y_unit |-> yu]

\* return None, None, None, None, None, None, None
NoPlot == Plot(FALSE, NotFound, NotFound, <<>>, <<>>, <<>>, <<>>, <<>>, "", "")

\* potential_groups_info: the groups, in key order, with Signals, Scans and both names
RECURSIVE PotentialGroups(_, _, _, _)
PotentialGroups(groups, names, x, y) ==
    IF names = <<>> THEN <<>>
    ELSE LET g == groups[Head(names)]
             ok == /\ g.Signals.has
                   /\ g.Scans.has
                   /\ PlotIndex(g.Signals.tab, x) # NotFound
                   /\ PlotIndex(g.Signals.tab, y) # NotFound
         IN  (IF ok THEN <<Head(names)>> ELSE <<>>) \o PotentialGroups(groups, Tail(names), x, y)

get_h5_plot_stuff(file, x_signal_b, y_signal_b) ==
    IF ~file.exists THEN NoPlot
    ELSE
    LET potential_groups_info ==
            PotentialGroups(file.groups, SortNames(DOMAIN file.groups), x_signal_b, y_signal_b)
    IN
    IF potential_groups_info = <<>> THEN NoPlot
    ELSE
    LET target_group == file.groups[potential_groups_info[1]]
        signals_metadata == target_group.Signals.tab
        x_col_idx == PlotIndex(signals_metadata, x_signal_b)
        y_col_idx == PlotIndex(signals_metadata, y_signal_b)
    IN
    \* target_group['Scans'][:, idx] raises IndexError past the last column
    IF x_col_idx >= target_group.Scans.ncols \/ y_col_idx >= target_group.Scans.ncols
    THEN NoPlot
    ELSE
    LET x_unit == signals_metadata[x_col_idx + 1].Unit
        y_unit == signals_metadata[y_col_idx + 1].Unit
    IN  Plot(TRUE, x_col_idx, y_col_idx,
             Column(target_group.Scans.rows, x_col_idx),
             Column(target_group.Scans.rows, y_col_idx),
             <<x_signal_b, x_unit>>, <<y_signal_b, y_unit>>,
             <<y_signal_b, x_signal_b>>, x_unit, y_unit)

---------------------------------------------------------------------------
(* combine_and_sort_h5_files: the steps *)

NoPrev == [has |-> FALSE, scans |-> NoScans, rt |-> NotFound]

\* scans_high, signals_high, rt_idx_high, attrs_high, triggers_high = extract_data_from_h5(file_path_high)
ExtractHigh ==
    /\ pc = "start"
    /\ high' = extract_data_from_h5(fs[pathHigh])
    /\ pc' = IF high'.raised THEN "raised" ELSE "extractedHigh"
    /\ UNCHANGED <<fs, fsPre, pathHigh, pathLow, outPath, low, rep, combined_scans,
                   sorted_scans, groups_dtype, plotArgs, plot, run, prev>>

\* scans_low, signals_low, rt_idx_low, attrs_low, triggers_low = extract_data_from_h5(file_path_low)
ExtractLow ==
    /\ pc = "extractedHigh"
    /\ low' = extract_data_from_h5(fs[pathLow])
    /\ pc' = IF low'.raised THEN "raised" ELSE "extracted"
    /\ UNCHANGED <<fs, fsPre, pathHigh, pathLow, outPath, high, rep, combined_scans,
                   sorted_scans, groups_dtype, plotArgs, plot, run, prev>>

\* the choice of signals_to_write, running_time_idx, attributes_to_write and
\* triggers_to_write; exit() when neither file qualifies
SelectMetadata ==
    /\ pc = "extracted"
    /\ LET choice == SelectRepresentative(high, low)
       IN  /\ rep' = choice.rep
           /\ pc' = IF choice.fatal THEN "fatal" ELSE "selected"
    /\ UNCHANGED <<fs, fsPre, pathHigh, pathLow, outPath, high, low, combined_scans,
                   sorted_scans, groups_dtype, plotArgs, plot, run, prev>>

\* all_scans_list_combined, exit() when it is empty, np.concatenate
CombineScans ==
    /\ pc = "selected"
    /\ LET all_scans_list_combined == CombinedList(high, low)
       IN  IF all_scans_list_combined = <<>>
           THEN pc' = "fatal" /\ UNCHANGED combined_scans
           ELSE IF ~ConcatCompatible(all_scans_list_combined)
           THEN pc' = "raised" /\ UNCHANGED combined_scans
           ELSE pc' = "combined" /\ combined_scans' = Concatenate(all_scans_list_combined)
    /\ UNCHANGED <<fs, fsPre, pathHigh, pathLow, outPath, high, low, rep,
                   sorted_scans, groups_dtype, plotArgs, plot, run, prev>>

\* sort_indices = combined_scans[:, running_time_idx].argsort();
\* sorted_scans = combined_scans[sort_indices]
SortScans ==
    /\ pc = "combined"
    /\ IF rep.rt >= combined_scans.ncols
       THEN pc' = "raised" /\ UNCHANGED sorted_scans
       ELSE /\ pc' = "sorted"
            /\ \E sort_indices \in Argsort(Column(combined_scans.rows, rep.rt)) :
                  sorted_scans' = Table(combined_scans.ncols,
                                        TakeRows(combined_scans.rows, sort_indices))
    /\ UNCHANGED <<fs, fsPre, pathHigh, pathLow, outPath, high, low, rep,
                   combined_scans, groups_dtype, plotArgs, plot, run, prev>>

\* with h5py.File(output_file_path, 'w') as hf_out: main_group = hf_out.create_group(...)
OpenOutput ==
    /\ pc = "sorted"
    /\ fs' = [fs EXCEPT ![outPath] = File(CombinedGroupName :> EmptyGroup)]
    /\ pc' = "opened"
    /\ UNCHANGED <<fsPre, pathHigh, pathLow, outPath, high, low, rep, combined_scans,
                   sorted_scans, groups_dtype, plotArgs, plot, run, prev>>

\* the three create_dataset calls and the attribute assignments
WriteData ==
    /\ pc = "opened"
    /\ fs' = [fs EXCEPT ![outPath].groups[CombinedGroupName] =
                 [@ EXCEPT !.Scans = sorted_scans,
                           !.Signals = IF rep.signals.has THEN rep.signals ELSE @,
                           !.Triggers = IF rep.triggers.has THEN rep.triggers ELSE @,
                           !.attrs = WrittenAttrs(rep.attrs, pathHigh, pathLow)]]
    /\ pc' = "written"
    /\ UNCHANGED <<fsPre, pathHigh, pathLow, outPath, high, low, rep, combined_scans,
                   sorted_scans, groups_dtype, plotArgs, plot, run, prev>>

\* groups_dtype from file_path_high, else the fallback dtype.  When
\* file_path_high is the output path the file is the one just created: opening
\* it for reading raises, which the except clause swallows, and it has no
\* session in any case
ReadGroupsDtype ==
    /\ pc = "written"
    /\ LET found == ReadDtype(fs[pathHigh])
       IN  groups_dtype' = IF found.has THEN found ELSE [has |-> TRUE, dtype |-> FallbackDtype]
    /\ pc' = "dtype"
    /\ UNCHANGED <<fs, fsPre, pathHigh, pathLow, outPath, high, low, rep, combined_scans,
                   sorted_scans, plotArgs, plot, run, prev>>

\* main_group.create_dataset('Groups', data=group_entry_data, ...) and the end of the with block
WriteGroups ==
    /\ pc = "dtype"
    /\ fs' = [fs EXCEPT ![outPath].groups[CombinedGroupName].Groups =
                 GroupsTable(groups_dtype.dtype,
                             GroupEntry(groups_dtype.dtype, Len(sorted_scans.rows)))]
    /\ pc' = "done"
    /\ UNCHANGED <<fsPre, pathHigh, pathLow, outPath, high, low, rep, combined_scans,
                   sorted_scans, groups_dtype, plotArgs, plot, run, prev>>

SignalNames == {RunningTime, AxialForce}

NoPlotArgs == [x |-> "", y |-> ""]

\* get_h5_plot_stuff(output_file_path, x_signal_name, y_signal_name), as the example
\* script calls it after the merge
PlotExtract ==
    /\ pc = "done"
    /\ \E x \in SignalNames, y \in SignalNames :
          /\ plotArgs' = [x |-> x, y |-> y]
          /\ plot' = get_h5_plot_stuff(fs[outPath], x, y)
    /\ pc' = "plotted"
    /\ UNCHANGED <<fs, fsPre, pathHigh, pathLow, outPath, high, low, rep, combined_scans,
                   sorted_scans, groups_dtype, run, prev>>

\* the caller runs the merge again with the two input paths in the other order
SwapAndRerun ==
    /\ pc \in {"done", "plotted"}
    /\ run = 1
    /\ run' = 2
    /\ prev' = [has |-> TRUE, scans |-> fs[outPath].groups[CombinedGroupName].Scans,
                rt |-> rep.rt]
    /\ pathHigh' = pathLow
    /\ pathLow' = pathHigh
    /\ fsPre' = fs
    /\ pc' = "start"
    /\ high' = NothingExtracted
    /\ low' = NothingExtracted
    /\ rep' = NoRep
    /\ combined_scans' = NoScans
    /\ sorted_scans' = NoScans
    /\ groups_dtype' = NoDtype
    /\ plotArgs' = NoPlotArgs
    /\ plot' = NoPlot
    /\ UNCHANGED <<fs, outPath>>

Next ==
    \/ ExtractHigh
    \/ ExtractLow
    \/ SelectMetadata
    \/ CombineScans
    \/ SortScans
    \/ OpenOutput
    \/ WriteData
    \/ ReadGroupsDtype
    \/ WriteGroups
    \/ PlotExtract
    \/ SwapAndRerun

---------------------------------------------------------------------------
(* Input files *)

PathA == <<"lab", "a.h5">>
PathB == <<"lab", "b.h5">>
PathOut == <<"lab", "out.h5">>
Paths == {PathA, PathB, PathOut}

Name(suffix) == SessionPrefix \o suffix
Session1 == Name(<<49>>)
Session10 == Name(<<49, 48>>)
Session2 == Name(<<50>>)
\* "Sess": shorter than the prefix
Sess == SubSeq(SessionPrefix, 1, 4)
\* "session1": the prefix in lower case
LowerSession1 == <<115>> \o Tail(Session1)

UnitOf(name) == IF name = RunningTime THEN "s" ELSE "N"

\* descriptor tables of up to n entries over the signal names
SigTabs(n) ==
    UNION {{[i \in 1..k |-> Sig(f[i], UnitOf(f[i]))] : f \in [1..k -> SignalNames]} : k \in 0..n}

TimeValue == <<Sig(RunningTime, "s"), Sig(AxialForce, "N")>>
ValueTime == <<Sig(AxialForce, "N"), Sig(RunningTime, "s")>>

\* two-column rows, and the tables of up to n rows whose first column is any
\* sequence of values and whose second column alternates 1, 0, 1, ...
Rows2 == {<<t, v>> : t \in 0..MaxVal, v \in 0..1}
Tables2(n) ==
    UNION {{Table(2, [i \in 1..k |-> <<f[i], i % 2>>]) : f \in [1..k -> 0..MaxVal]} : k \in 0..n}

AttrsOf(tag) == [k \in {"DisplayName", "Operator"} |-> IF k = "DisplayName" THEN tag ELSE "op-" \o tag]

OrigDtype == [ints |-> "<i4", tag |-> 16]

\* a file with the one session Session1
OneSession(scans, signals, triggers, tag, groups) ==
    File(Session1 :> Group(scans, signals, triggers, AttrsOf(tag), groups))

\* a file whose only group is not a session
NoSessionFile(tag) ==
    File(Sess :> Group(Table(3, <<<<0, 0, 0>>>>), Signals(TimeValue), Triggers("T" \o tag),
                       AttrsOf(tag), NoGroups))

\* what may lie at the output path before the call
StaleFile == File(CombinedGroupName :> Group(Table(1, <<<<7>>>>), NoSignals, NoTriggers,
                                              AttrsOf("stale"), NoGroups))

\* the call combine_and_sort_h5_files([PathA, PathB], target) on a file system
\* holding a and b, and out at PathOut
InitCallAt(a, b, out, target) ==
    /\ fs = [p \in Paths |-> IF p = PathA THEN a ELSE IF p = PathB THEN b ELSE out]
    /\ fsPre = fs
    /\ pathHigh = PathA
    /\ pathLow = PathB
    /\ outPath = target
    /\ pc = "start"
    /\ high = NothingExtracted
    /\ low = NothingExtracted
    /\ rep = NoRep
    /\ combined_scans = NoScans
    /\ sorted_scans = NoScans
    /\ groups_dtype = NoDtype
    /\ plotArgs = NoPlotArgs
    /\ plot = NoPlot
    /\ run = 1
    /\ prev = NoPrev

InitCall(a, b, out) == InitCallAt(a, b, out, PathOut)

(* Files for the sort: one has a table of up to MaxRows rows, the other a table
   of at most one row or none, and either column may be the running time *)
SortFilesA ==
    {OneSession(t, Signals(TimeValue), Triggers("Ta"), "a", NoGroups) : t \in Tables2(MaxRows)}

SortFilesB ==
    {OneSession(t, s, NoTriggers, "b", NoGroups) :
        t \in {Table(2, <<>>), NoScans} \cup {Table(2, <<r>>) : r \in Rows2},
        s \in {Signals(TimeValue), Signals(ValueTime), NoSignals}}

\* the example of the specification: times [0,2,4,6] with values [1,2,3,4] in two
\* sessions, times [1,3,5] with values [10,20,30] in one
ExampleA ==
    File((Session1 :> Group(Table(2, <<<<0, 1>>, <<2, 2>>>>), Signals(TimeValue),
                            Triggers("Ta"), AttrsOf("a"), NoGroups))
         @@ (Session2 :> Group(Table(2, <<<<4, 3>>, <<6, 4>>>>), Signals(TimeValue),
                               Triggers("Ta"), AttrsOf("a"), NoGroups)))

ExampleB ==
    OneSession(Table(2, <<<<1, 10>>, <<3, 20>>, <<5, 30>>>>), Signals(TimeValue),
               Triggers("Tb"), "b", NoGroups)

Init ==
    \/ \E a \in SortFilesA, b \in SortFilesB : InitCall(a, b, AbsentFile)
    \/ InitCall(ExampleA, ExampleB, AbsentFile)

Spec == Init /\ [][Next]_vars

(* Files for the choice of the metadata.  The first has every descriptor table of
   up to MaxSigs entries or none, the second a table of at most one entry or
   none; each has no Scans, an empty Scans or a Scans with rows, with or without
   Triggers and Groups; also a missing file and a file without sessions *)
MetaScans(tag) ==
    IF tag = "a"
    THEN {NoScans, Table(3, <<>>), Table(3, <<<<2, 0, 1>>, <<1, 1, 0>>>>)}
    ELSE {NoScans, Table(3, <<>>), Table(3, <<<<0, 1, 2>>, <<1, 0, 0>>>>), Table(2, <<<<0, 1>>>>)}

MetaSignals(tag) ==
    {Signals(d) : d \in SigTabs(IF tag = "a" THEN MaxSigs ELSE 1)} \cup {NoSignals}

MetaFiles(tag) ==
    {AbsentFile, NoSessionFile(tag)}
    \cup {OneSession(t, s, NoTriggers, tag, NoGroups) :
            t \in MetaScans(tag), s \in MetaSignals(tag)}
    \cup {OneSession(t, s, Triggers("T" \o tag), tag, GroupsTable(OrigDtype, <<>>)) :
            t \in MetaScans(tag), s \in MetaSignals(tag)}

InitMeta ==
    \E a \in MetaFiles("a"), b \in MetaFiles("b"), out \in {AbsentFile, StaleFile} :
        InitCall(a, b, out)

SpecMeta == InitMeta /\ [][Next]_vars

(* Files for the aggregation: up to MaxSessions groups among five names, three of
   them sessions, each with no Scans, an empty Scans, or a Scans of one or two
   columns whose rows name the group *)
AggNames == <<Session2, Session10, Session1, Sess, LowerSession1>>

AggScans(i) ==
    {NoScans, Table(2, <<>>), Table(2, <<<<i, 1>>, <<i, 0>>>>), Table(1, <<<<i>>>>)}

AggGroups(i) ==
    {Group(t, s, Triggers("Ta"), AttrsOf("a"), NoGroups) :
        t \in AggScans(i), s \in {Signals(TimeValue), NoSignals}}

AggFiles ==
    {File(g) : g \in UNION {{f \in [{AggNames[i] : i \in I} -> UNION {AggGroups(i) : i \in I}] :
                                \A i \in I : f[AggNames[i]] \in AggGroups(i)} :
                            I \in {J \in SUBSET (DOMAIN AggNames) :
                                      Cardinality(J) \in 1..MaxSessions}}}

InitAgg ==
    \E a \in AggFiles : InitCall(a, NoSessionFile("b"), AbsentFile)

SpecAgg == InitAgg /\ [][Next]_vars

(* Files for the writing of the output: each input has Groups of a layout with a
   wide tag field, of a layout with a tag field narrower than b'Combined', or no
   Groups; it has Scans or not, Triggers or not, descriptors with or without the
   running time; or it is missing.  The output path is a path of its own or the
   path of one of the inputs. *)
NarrowDtype == [ints |-> "<i8", tag |-> 4]

Layouts == {NoGroups, GroupsTable(OrigDtype, <<>>), GroupsTable(NarrowDtype, <<>>)}

LayoutScans(tag) ==
    IF tag = "a" THEN {NoScans, Table(2, <<<<1, 0>>, <<0, 1>>>>)}
    ELSE {NoScans, Table(2, <<<<2, 1>>>>)}

LayoutFiles(tag) ==
    {AbsentFile}
    \cup {OneSession(t, Signals(s), tr, tag, g) :
            t \in LayoutScans(tag),
            s \in {TimeValue, <<Sig(AxialForce, "N")>>},
            tr \in {NoTriggers, Triggers("T" \o tag)},
            g \in Layouts}

InitOut ==
    \E a \in LayoutFiles("a"), b \in LayoutFiles("b"), out \in {AbsentFile, StaleFile},
       target \in Paths :
        InitCallAt(a, b, out, target)

SpecOut == InitOut /\ [][Next]_vars

---------------------------------------------------------------------------
(* What the claims speak of, stated from the contents of the files *)

HighFile == fsPre[pathHigh]
LowFile == fsPre[pathLow]

\* the Scans table the merge wrote
OutGroup == fs[outPath].groups[CombinedGroupName]
OutRows == OutGroup.Scans.rows

Succeeded == pc \in {"done", "plotted"}

\* the name begins with "Session"
IsSession(n) ==
    /\ Len(n) >= Len(SessionPrefix)
    /\ \A i \in DOMAIN SessionPrefix : n[i] = SessionPrefix[i]

\* a comes before b in lexicographic order
LexBefore(a, b) ==
    \E k \in DOMAIN b :
        /\ \A i \in 1..(k - 1) : i <= Len(a) /\ a[i] = b[i]
        /\ (k > Len(a) \/ a[k] < b[k])

SessionsOf(file) == IF file.exists THEN {n \in DOMAIN file.groups : IsSession(n)} ELSE {}

SessionsWithScans(file) == {n \in SessionsOf(file) : file.groups[n].Scans.has}

Earliest(S) == CHOOSE n \in S : \A m \in S \ {n} : LexBefore(n, m)

FirstGroup(file) == file.groups[Earliest(SessionsOf(file))]

\* the rows of the Scans of the sessions in S, session after session in name order
RECURSIVE RowsInOrder(_, _)
RowsInOrder(file, S) ==
    IF S = {} THEN <<>>
    ELSE file.groups[Earliest(S)].Scans.rows \o RowsInOrder(file, S \ {Earliest(S)})

AggRows(file) == RowsInOrder(file, SessionsWithScans(file))

RECURSIVE RowSum(_, _)
RowSum(file, S) ==
    IF S = {} THEN 0
    ELSE LET n == CHOOSE x \in S : TRUE
         IN  Len(file.groups[n].Scans.rows) + RowSum(file, S \ {n})

\* the rows the file's sessions hold, 0 for a file that has no Scans
RowTotal(file) == RowSum(file, SessionsWithScans(file))

SameWidth(file) ==
    \A n, m \in SessionsWithScans(file) : file.groups[n].Scans.ncols = file.groups[m].Scans.ncols

\* the lowest index whose Name is the target, -1 when there is none
LowestIndex(tab, target) ==
    IF \E i \in DOMAIN tab : tab[i].Name = target
    THEN (CHOOSE i \in DOMAIN tab :
             /\ tab[i].Name = target
             /\ \A j \in 1..(i - 1) : tab[j].Name # target) - 1
    ELSE -1

\* the file has a descriptor table in its first session and it names the running time
Resolvable(file) ==
    /\ SessionsOf(file) # {}
    /\ FirstGroup(file).Signals.has
    /\ \E i \in DOMAIN FirstGroup(file).Signals.tab :
          FirstGroup(file).Signals.tab[i].Name = RunningTime

\* descriptors, running-time index, attributes and triggers of the file's first session
ItemsOf(file) ==
    Rep(FirstGroup(file).Signals,
        LowestIndex(FirstGroup(file).Signals.tab, RunningTime),
        [has |-> TRUE, map |-> FirstGroup(file).attrs],
        FirstGroup(file).Triggers)

\* the file whose metadata the merge is to use
ChosenFile == IF Resolvable(HighFile) THEN HighFile ELSE LowFile
ChosenIndex == LowestIndex(FirstGroup(ChosenFile).Signals.tab, RunningTime)

SortedBy(rows, idx) ==
    \A i, j \in DOMAIN rows : i < j => rows[i][idx + 1] <= rows[j][idx + 1]

StrictlySortedBy(rows, idx) ==
    \A i, j \in DOMAIN rows : i < j => rows[i][idx + 1] < rows[j][idx + 1]

Count(r, rows) == Cardinality({i \in DOMAIN rows : rows[i] = r})

\* the two sequences hold the same rows, each as often
SameRows(r1, r2) ==
    /\ Len(r1) = Len(r2)
    /\ \A r \in Range(r1) \cup Range(r2) : Count(r, r1) = Count(r, r2)

---------------------------------------------------------------------------
(* C1: after every successful merge the written Scans is in non-decreasing
   order of the chosen running-time column, and it has as many rows as the
   sessions of the first file and of the second file hold together (a file
   without Scans counts as 0 rows). *)
C1_SortedAndComplete ==
    Succeeded =>
        /\ SortedBy(OutRows, ChosenIndex)
        /\ Len(OutRows) = RowTotal(HighFile) + RowTotal(LowFile)

\* both files gave rows and the sort had to move some
C1_Witness ==
    /\ pc = "done"
    /\ RowTotal(HighFile) > 0
    /\ RowTotal(LowFile) > 0
    /\ OutRows # combined_scans.rows
    /\ SortedBy(OutRows, ChosenIndex)

(* C2: the written Scans is a row permutation of the first file's rows followed
   by the second file's rows, nothing dropped, duplicated or altered; when the
   running-time values are all distinct the result is strictly ascending, so it
   is the one ascending interleaving; the example of the specification gives
   times [0..6] with values [1,10,2,20,3,30,4]. *)
C2_ExactPermutation ==
    Succeeded =>
        /\ SameRows(OutRows, AggRows(HighFile) \o AggRows(LowFile))
        /\ ((\A i, j \in DOMAIN OutRows :
                i # j => OutRows[i][ChosenIndex + 1] # OutRows[j][ChosenIndex + 1])
            => StrictlySortedBy(OutRows, ChosenIndex))
        /\ (HighFile = ExampleA /\ LowFile = ExampleB
            => OutRows = <<<<0, 1>>, <<1, 10>>, <<2, 2>>, <<3, 20>>, <<4, 3>>, <<5, 30>>, <<6, 4>>>>)

\* the example has been merged
C2_Witness ==
    /\ pc = "done"
    /\ HighFile = ExampleA
    /\ LowFile = ExampleB
    /\ Column(OutRows, 0) = <<0, 1, 2, 3, 4, 5, 6>>
    /\ Column(OutRows, 1) = <<1, 10, 2, 20, 3, 30, 4>>

---------------------------------------------------------------------------
\* extract_data_from_h5 has returned for the first file, for the second file
HighReturned == pc # "start" /\ ~high.raised
LowReturned == pc \notin {"start", "extractedHigh"} /\ ~high.raised /\ ~low.raised

\* the call for the first file, for the second file, is over (returned or raised)
HighOver == pc # "start"
LowOver == pc \notin {"start", "extractedHigh"} /\ ~high.raised

\* the result is a sample table that is the concatenation, in session order, of
\* the file's Scans
IsConcatenation(result, file) ==
    /\ ~result.raised
    /\ result.scans.has
    /\ result.scans.rows = AggRows(file)
    /\ Len(result.scans.rows) = RowTotal(file)

(* C3 as stated: for every file with at least one session, extract_data_from_h5
   returns a sample table equal to the concatenation of the Scans of the
   sessions that have one, in ascending lexicographic order of session name. *)
C3_AnySessionConcatenation ==
    /\ (HighOver /\ SessionsOf(HighFile) # {}) => IsConcatenation(high, HighFile)
    /\ (LowOver /\ SessionsOf(LowFile) # {}) => IsConcatenation(low, LowFile)

(* C3 as amended: for every file with at least one session that has a Scans
   table, all of whose Scans tables have the same number of columns,
   extract_data_from_h5 returns a sample table equal to the row-wise
   concatenation of those Scans tables in ascending lexicographic order of
   session name (names starting with "Session" only); its row count is the sum
   of the sessions' row counts. *)
C3_Concatenation ==
    /\ (HighOver /\ SessionsWithScans(HighFile) # {} /\ SameWidth(HighFile))
          => IsConcatenation(high, HighFile)
    /\ (LowOver /\ SessionsWithScans(LowFile) # {} /\ SameWidth(LowFile))
          => IsConcatenation(low, LowFile)

\* Session10 and Session2 both hold rows: the rows of Session10 come first
C3_Witness ==
    /\ pc = "extractedHigh"
    /\ SessionsWithScans(HighFile) = {Session10, Session2}
    /\ high.scans.rows = <<<<2, 1>>, <<2, 0>>, <<1, 1>>, <<1, 0>>>>

---------------------------------------------------------------------------
\* the first session of the file has a descriptor table
HasDescriptors(file) == SessionsOf(file) # {} /\ FirstGroup(file).Signals.has

NamePresent(tab, name) == \E i \in DOMAIN tab : tab[i].Name = name

(* C4: signal resolution returns the lowest index whose Name equals the target,
   and -1 if and only if no entry matches, where extract_data_from_h5 resolves
   the running-time column and where get_h5_plot_stuff resolves the x and y
   names within one descriptor table. *)
C4_LowestIndex ==
    /\ (HighReturned /\ HasDescriptors(HighFile))
          => high.rt = LowestIndex(FirstGroup(HighFile).Signals.tab, RunningTime)
    /\ (LowReturned /\ HasDescriptors(LowFile))
          => low.rt = LowestIndex(FirstGroup(LowFile).Signals.tab, RunningTime)
    /\ (pc = "plotted" /\ plot.ok /\ plotArgs.x # plotArgs.y)
          => /\ plot.x_idx = LowestIndex(OutGroup.Signals.tab, plotArgs.x)
             /\ plot.y_idx = LowestIndex(OutGroup.Signals.tab, plotArgs.y)
    /\ (pc = "plotted" /\ ~NamePresent(OutGroup.Signals.tab, plotArgs.x)) => ~plot.ok
    /\ (pc = "plotted" /\ ~NamePresent(OutGroup.Signals.tab, plotArgs.y)) => ~plot.ok

---------------------------------------------------------------------------
\* the choice between the files has been made
AfterSelection == pc \notin {"start", "extractedHigh", "extracted"} /\ ~high.raised /\ ~low.raised

Written == pc \in {"written", "dtype", "done", "plotted"}

\* the four items the merge is to use: the first file's if it qualifies, else the
\* second file's if it qualifies, else none
ExpectedRep ==
    IF Resolvable(HighFile) THEN ItemsOf(HighFile)
    ELSE IF Resolvable(LowFile) THEN ItemsOf(LowFile)
    ELSE NoRep

(* C5: the descriptors, attributes, triggers and running-time index used for the
   output all come from the first file if and only if it has a descriptor table
   and a valid running-time index, otherwise all from the second file if and
   only if it has, otherwise the merge is fatal; they are never mixed, and the
   rows of a file have no part in the choice. *)
C5_Representative ==
    /\ AfterSelection =>
          /\ rep = ExpectedRep
          /\ (~Resolvable(HighFile) /\ ~Resolvable(LowFile)) => pc = "fatal"
          /\ (pc = "fatal" /\ (Resolvable(HighFile) \/ Resolvable(LowFile)))
                => RowTotal(HighFile) + RowTotal(LowFile) = 0
    /\ Written =>
          /\ OutGroup.Signals = ExpectedRep.signals
          /\ OutGroup.Triggers = ExpectedRep.triggers
          /\ \A k \in (DOMAIN ExpectedRep.attrs.map) \ NewAttrKeys :
                OutGroup.attrs[k] = ExpectedRep.attrs.map[k]
          /\ SortedBy(OutGroup.Scans.rows, ExpectedRep.rt)

\* the first file gave rows and has descriptors, but not the running time: the
\* output carries the second file's metadata
C5_Witness ==
    /\ pc = "done"
    /\ HasDescriptors(HighFile)
    /\ ~Resolvable(HighFile)
    /\ RowTotal(HighFile) > 0
    /\ RowTotal(LowFile) = 0
    /\ rep = ItemsOf(LowFile)
    /\ OutGroup.Triggers = FirstGroup(LowFile).Triggers
    /\ OutGroup.Triggers.has

(* C6: if neither file has a resolvable running-time column the merge ends
   fatally and writes nothing, the output path is left as it was; and every
   fatal outcome happens before the output file is opened. *)
C6_FatalWritesNothing ==
    /\ pc = "fatal" => fs = fsPre
    /\ (~Resolvable(HighFile) /\ ~Resolvable(LowFile))
          => /\ pc \in {"start", "extractedHigh", "extracted", "fatal", "raised"}
             /\ pc = "raised" => (high.raised \/ low.raised)
             /\ fs = fsPre

\* both files have descriptors without the running time, and the file that was
\* at the output path is still there
C6_Witness ==
    /\ pc = "fatal"
    /\ HasDescriptors(HighFile) /\ ~Resolvable(HighFile)
    /\ HasDescriptors(LowFile) /\ ~Resolvable(LowFile)
    /\ RowTotal(HighFile) > 0
    /\ fs[outPath] = StaleFile

(* C7: whenever the two files contribute zero sample rows in total, because no
   session has a Scans table or because every Scans table has zero rows, the
   merge aborts as fatal and no output file is written. *)
C7_ZeroRowsFatal ==
    (pc \in {"fatal", "raised", "done", "plotted"} /\ RowTotal(HighFile) + RowTotal(LowFile) = 0)
        => (pc = "fatal" /\ fs[outPath] = fsPre[outPath])

---------------------------------------------------------------------------
ZeroSessions(file) == file.exists /\ SessionsOf(file) = {}

\* descriptors that name the running time, at least one row, and Scans tables of
\* one width that have the running-time column
ValidFile(file) ==
    /\ Resolvable(file)
    /\ RowTotal(file) >= 1
    /\ SameWidth(file)
    /\ \A n \in SessionsWithScans(file) :
          LowestIndex(FirstGroup(file).Signals.tab, RunningTime) < file.groups[n].Scans.ncols

(* C8: merging a file that has zero sessions with a valid file, in either
   argument position, succeeds; the written Scans is the valid file's rows
   sorted ascending by running time, the written Signals and Triggers are the
   valid file's. *)
C8_ZeroSessionMerge ==
    ((ZeroSessions(HighFile) /\ ValidFile(LowFile)) \/ (ValidFile(HighFile) /\ ZeroSessions(LowFile)))
        => LET valid == IF ZeroSessions(HighFile) THEN LowFile ELSE HighFile
           IN  /\ pc \notin {"fatal", "raised"}
               /\ Succeeded =>
                     /\ SameRows(OutRows, AggRows(valid))
                     /\ SortedBy(OutRows, LowestIndex(FirstGroup(valid).Signals.tab, RunningTime))
                     /\ OutGroup.Signals = FirstGroup(valid).Signals
                     /\ OutGroup.Triggers = FirstGroup(valid).Triggers

\* the second call has succeeded with the zero-session file first, after the
\* first call succeeded with it second, and the sort had rows to move
C8_Witness ==
    /\ pc = "done"
    /\ run = 2
    /\ ZeroSessions(HighFile)
    /\ ValidFile(LowFile)
    /\ OutRows # AggRows(LowFile)
    /\ OutGroup.Triggers.has

(* C9: after a successful merge, get_h5_plot_stuff on the output file with two
   signal names present in the written descriptor table returns, for each name,
   the column of the sorted sample array at the index the first match gives
   that name, same values in the same order.  Stated for outputs whose Scans
   has one column per descriptor. *)
C9_RoundTrip ==
    (/\ pc = "plotted"
     /\ plotArgs.x # plotArgs.y
     /\ Len(OutGroup.Signals.tab) = sorted_scans.ncols
     /\ NamePresent(OutGroup.Signals.tab, plotArgs.x)
     /\ NamePresent(OutGroup.Signals.tab, plotArgs.y))
        => /\ plot.ok
           /\ plot.x_data = Column(sorted_scans.rows, LowestIndex(OutGroup.Signals.tab, plotArgs.x))
           /\ plot.y_data = Column(sorted_scans.rows, LowestIndex(OutGroup.Signals.tab, plotArgs.y))

---------------------------------------------------------------------------
\* the two tables hold the same rows and have the same value of column idx in
\* every place: they differ at most in the order of rows that are equal there
SameUpToTies(r1, r2, idx) ==
    /\ SameRows(r1, r2)
    /\ \A i \in DOMAIN r1 : r1[i][idx + 1] = r2[i][idx + 1]

BothOrdersSucceeded == run = 2 /\ Succeeded /\ prev.has

(* C10 as stated: when the merge succeeds in both argument orders, the two
   written Scans tables hold the same rows sorted by the same time values, and
   are identical up to the order of rows with equal running time (taking for
   the running time the column of either call). *)
C10_OrderOnlyMetadata ==
    BothOrdersSucceeded =>
        \/ SameUpToTies(prev.scans.rows, OutRows, prev.rt)
        \/ SameUpToTies(prev.scans.rows, OutRows, ChosenIndex)

(* C10 as amended: when the merge succeeds in both argument orders, the two
   written Scans tables hold the same rows, each table sorted ascending by the
   running-time column of its own representative; when both orders resolve the
   same running-time column index the two tables are identical up to the order
   of rows with equal running time. *)
C10_SameRowsEitherOrder ==
    BothOrdersSucceeded =>
        /\ SameRows(prev.scans.rows, OutRows)
        /\ SortedBy(prev.scans.rows, prev.rt)
        /\ SortedBy(OutRows, ChosenIndex)
        /\ (prev.rt = ChosenIndex
            => SameUpToTies(prev.scans.rows, OutRows, ChosenIndex))

\* both files qualify with the same running-time column and gave rows, and the
\* two outputs differ in the order of rows with equal running time
C10_Witness ==
    /\ run = 2
    /\ pc = "done"
    /\ Resolvable(HighFile)
    /\ Resolvable(LowFile)
    /\ RowTotal(HighFile) > 0
    /\ RowTotal(LowFile) > 0
    /\ prev.rt = ChosenIndex
    /\ OutRows # prev.scans.rows

---------------------------------------------------------------------------
\* the last component of a path
FileName(path) == path[Len(path)]

(* C11: after a successful merge the attributes of the output container are the
   representative file's first-session attributes overridden by exactly five
   keys: DisplayName and Name are the fixed constants, SessionIndex is 0,
   OriginalFileHigh is the basename of the first argument and OriginalFileLow
   the basename of the second, whichever file is the representative; every
   other attribute of the representative is carried through unchanged. *)
C11_AmendedAttributes ==
    Written =>
        /\ DOMAIN OutGroup.attrs =
              (DOMAIN ExpectedRep.attrs.map)
              \cup {"DisplayName", "Name", "SessionIndex", "OriginalFileHigh", "OriginalFileLow"}
        /\ OutGroup.attrs["DisplayName"] = "Combined High and Low Frequency Data (Sorted by Running Time)"
        /\ OutGroup.attrs["Name"] = "combinedCyclicDaqActivity"
        /\ OutGroup.attrs["SessionIndex"] = "0"
        /\ OutGroup.attrs["OriginalFileHigh"] = FileName(pathHigh)
        /\ OutGroup.attrs["OriginalFileLow"] = FileName(pathLow)
        /\ \A k \in (DOMAIN ExpectedRep.attrs.map)
                     \ {"DisplayName", "Name", "SessionIndex", "OriginalFileHigh", "OriginalFileLow"} :
              OutGroup.attrs[k] = ExpectedRep.attrs.map[k]

\* the second call, arguments swapped: the second argument a.h5 is the
\* representative, its Operator is carried through and its DisplayName is not,
\* and b.h5 is recorded as the first argument
C11_Witness ==
    /\ pc = "done"
    /\ run = 2
    /\ ~Resolvable(HighFile)
    /\ Resolvable(LowFile)
    /\ OutGroup.attrs["Operator"] = "op-a"
    /\ FirstGroup(LowFile).attrs["DisplayName"] = "a"
    /\ OutGroup.attrs["DisplayName"] # "a"
    /\ OutGroup.attrs["OriginalFileHigh"] = "b.h5"
    /\ OutGroup.attrs["OriginalFileLow"] = "a.h5"

---------------------------------------------------------------------------
\* the first session of the file has a Groups table
HasLayout(file) == SessionsOf(file) # {} /\ FirstGroup(file).Groups.has

\* the column layouts of the Groups tables of the two source files
SourceLayouts ==
    {FirstGroup(f).Groups.dtype : f \in {g \in {HighFile, LowFile} : HasLayout(g)}}

\* the output path is the path of neither input
OwnOutputPath == outPath # pathHigh /\ outPath # pathLow

(* C12: the column layout of the written Groups table is copied from a Groups
   table of the first or of the second source file whenever one of them has
   one, and it is the fallback layout (int64 id, start and count, a
   fixed-width byte-string tag) only when neither has.  Stated for output
   paths other than the two input paths. *)
C12_LayoutFromEitherFile ==
    (Succeeded /\ OwnOutputPath) =>
        /\ OutGroup.Groups.has
        /\ IF SourceLayouts # {}
           THEN OutGroup.Groups.dtype \in SourceLayouts
           ELSE OutGroup.Groups.dtype = [ints |-> "<i8", tag |-> 10]

---------------------------------------------------------------------------
\* the one row the Groups table is to hold
ExpectedGroupRow ==
    [Id |-> 1, ScanStart |-> 0, ScanCount |-> Len(OutRows),
     Tag |-> <<67, 111, 109, 98, 105, 110, 101, 100>>]

(* C13: whenever a run of combine_and_sort_h5_files leaves a file it wrote at
   the output path, that file has exactly the one top-level container
   "CombinedDataSession", holding Scans, Signals, Groups (exactly one row: id 1,
   start 0, count the number of rows of the written Scans, tag "Combined") and
   Triggers if and only if the representative file had one; nothing that was at
   the path before survives; and a run that ends otherwise leaves the path as
   it was, never a file with only some of the tables. *)
C13_WellFormedOutput ==
    /\ Succeeded =>
          /\ fs[outPath].exists
          /\ DOMAIN fs[outPath].groups = {CombinedGroupName}
          /\ OutGroup.Scans.has
          /\ SameRows(OutRows, AggRows(HighFile) \o AggRows(LowFile))
          /\ OutGroup.Signals.has
          /\ OutGroup.Signals = ExpectedRep.signals
          /\ OutGroup.Triggers = ExpectedRep.triggers
          /\ OutGroup.Groups.has
          /\ OutGroup.Groups.rows = <<ExpectedGroupRow>>
    /\ pc \in {"fatal", "raised"} => fs[outPath] = fsPre[outPath]

---------------------------------------------------------------------------
\* the result carries the descriptors, the resolved index, the attributes and the
\* triggers of the file's first session, what is missing being absent or -1
FirstSessionItems(result, file) ==
    /\ result.signals = FirstGroup(file).Signals
    /\ result.signals.has
          => result.rt = LowestIndex(FirstGroup(file).Signals.tab, RunningTime)
    /\ ~result.signals.has => result.rt = -1
    /\ result.attrs.has
    /\ result.attrs.map = FirstGroup(file).attrs
    /\ result.triggers = FirstGroup(file).Triggers

\* (1) zero sessions: nothing at all is returned
NoSessionOutcome(result) ==
    /\ ~result.raised
    /\ ~result.scans.has
    /\ ~result.signals.has
    /\ result.rt = -1
    /\ ~result.attrs.has
    /\ ~result.triggers.has

\* (2) sessions, none with Scans: no sample table, the first session's items
NoScansOutcome(result, file) ==
    /\ ~result.raised
    /\ ~result.scans.has
    /\ FirstSessionItems(result, file)

\* every other case: a sample table and the first session's items
TableOutcome(result, file) ==
    /\ ~result.raised
    /\ result.scans.has
    /\ FirstSessionItems(result, file)

(* C14 as stated: on an existing file extract_data_from_h5 fails to produce a
   sample table in two ways only: with zero sessions it returns no samples, no
   descriptors, index -1, no attributes, no triggers; with sessions of which
   none has Scans it returns an absent sample table with the first session's
   descriptors, index, attributes and triggers.  In every other case it returns
   a sample table without aborting, what is missing being absent or -1. *)
C14_TwoFailureModes ==
    /\ (HighOver /\ HighFile.exists) =>
          /\ ZeroSessions(HighFile) => NoSessionOutcome(high)
          /\ (SessionsOf(HighFile) # {} /\ SessionsWithScans(HighFile) = {})
                => NoScansOutcome(high, HighFile)
          /\ SessionsWithScans(HighFile) # {} => TableOutcome(high, HighFile)
    /\ (LowOver /\ LowFile.exists) =>
          /\ ZeroSessions(LowFile) => NoSessionOutcome(low)
          /\ (SessionsOf(LowFile) # {} /\ SessionsWithScans(LowFile) = {})
                => NoScansOutcome(low, LowFile)
          /\ SessionsWithScans(LowFile) # {} => TableOutcome(low, LowFile)

(* C14 as amended: the same, the third case being that of a file with at least
   one session that has Scans and whose Scans tables all have the same number
   of columns. *)
C14_FailureModes ==
    /\ (HighOver /\ HighFile.exists) =>
          /\ ZeroSessions(HighFile) => NoSessionOutcome(high)
          /\ (SessionsOf(HighFile) # {} /\ SessionsWithScans(HighFile) = {})
                => NoScansOutcome(high, HighFile)
          /\ (SessionsWithScans(HighFile) # {} /\ SameWidth(HighFile))
                => TableOutcome(high, HighFile)
    /\ (LowOver /\ LowFile.exists) =>
          /\ ZeroSessions(LowFile) => NoSessionOutcome(low)
          /\ (SessionsOf(LowFile) # {} /\ SessionsWithScans(LowFile) = {})
                => NoScansOutcome(low, LowFile)
          /\ (SessionsWithScans(LowFile) # {} /\ SameWidth(LowFile))
                => TableOutcome(low, LowFile)

\* the first session, Session10, has neither Scans nor Signals and Session2 has
\* Scans: a sample table is returned, with no descriptors and index -1
C14_Witness ==
    /\ pc = "extractedHigh"
    /\ SessionsOf(HighFile) = {Session10, Session2}
    /\ ~HighFile.groups[Session10].Scans.has
    /\ ~HighFile.groups[Session10].Signals.has
    /\ high.scans.rows = <<<<1, 1>>, <<1, 0>>>>
    /\ ~high.signals.has
    /\ high.rt = -1
    /\ high.triggers.has

---------------------------------------------------------------------------
\* the run is over: it succeeded, it ended at exit(), or it raised
RunOver == pc \in {"done", "plotted", "fatal", "raised"}

(* C15: for every choice of the two input paths and of the output path, after
   any run of combine_and_sort_h5_files, successful or fatal, the contents of
   both input files are what they were before the run. *)
C15_InputsUnchanged ==
    RunOver =>
        /\ fs[pathHigh] = fsPre[pathHigh]
        /\ fs[pathLow] = fsPre[pathLow]

=============================================================================
